---- MODULE Spec2Model ----
(***************************************************************************)
(* Model of the retrieval core of tube-rag:                                *)
(*   - HybridSearchService (packages/retrieval): search, the two legs      *)
(*     performVectorSearch / performTextSearch, and combineResults;        *)
(*   - MongoDBVectorStore (packages/vector-store): upsert, delete,         *)
(*     getStats over one MongoDB collection.                               *)
(*                                                                         *)
(* Scores are fixed-point: a score s stands for s/1000, a weight w for     *)
(* w/10, so score * weight is (s * w) \div 10 in thousandths.  All scores  *)
(* used are multiples of 100, so the products are exact.                   *)
(***************************************************************************)
EXTENDS Integers, Sequences, FiniteSets, TLC

VARIABLES
    \* ---- HybridSearchService.search: one invocation ----
    pc,            \* "idle" | "awaiting" (at the await of Promise.all) | "returned" | "rejected"
    query,         \* argument query
    topK,          \* argument topK
    options,       \* argument options: [vectorWeight, textWeight, minScore]
    vecPc,         \* performVectorSearch: "idle" | "embedding" | "querying" | "settled"
    textPc,        \* performTextSearch:   "idle" | "searching" | "settled"
    vectorLeg,     \* promise of performVectorSearch: [state, value]
    textLeg,       \* promise of performTextSearch:   [state, value]
    dispatched,    \* the remote calls issued so far for this invocation
    errorLog,      \* the console.error lines written by the two legs
    fused,         \* the local combinedResults of search (before slice)
    result,        \* the HybridSearchResult search resolved with, or NoResult
    \* ---- MongoDBVectorStore ----
    collection,    \* the MongoDB collection: _id -> document or NoDoc
    storeCall,     \* the store method awaiting its driver call, or NoCall
    storeReply,    \* how the last store method settled
    connectPc,     \* connect(): "disconnected" | "listing" | "creating" | "connected" | "failed"
    searchIndexes, \* the search indexes of the collection (what listIndexes reports)
    queryCall      \* query(): the filters given and the $vectorSearch stage built, or NoCall

searchVars == <<pc, query, topK, options, vecPc, textPc, vectorLeg, textLeg,
                dispatched, errorLog, fused, result>>
storeVars == <<collection, storeCall, storeReply>>
indexVars == <<connectPc, searchIndexes, queryCall>>
vars == <<pc, query, topK, options, vecPc, textPc, vectorLeg, textLeg,
          dispatched, errorLog, fused, result, collection, storeCall, storeReply,
          connectPc, searchIndexes, queryCall>>

----------------------------------------------------------------------------
(* Bounds and input domains *)

MaxTopK == 2

Ids == {"a", "b", "c"}

Scores == {300, 500, 900}

Queries == {"", "database indexing"}

TopKs == (0 - 1) .. MaxTopK

DefaultOptions == [vectorWeight |-> 7, textWeight |-> 3, minScore |-> 500]

OptionSets == {DefaultOptions, [vectorWeight |-> 3, textWeight |-> 7, minScore |-> 600]}

VectorContent == "transcript chunk"

TextContent == "text match"

NoResult == [none |-> TRUE]

Pending == [state |-> "pending", value |-> <<>>]

Min(x, y) == IF x < y THEN x ELSE y

Max(x, y) == IF x > y THEN x ELSE y

Range(s) == {s[i] : i \in 1..Len(s)}

IdsOf(s) == {s[i].id : i \in 1..Len(s)}

\* Sequences over S of length exactly n
SeqsOfLen(S, n) == [1..n -> S]

\* Sequences of length at most n whose elements carry pairwise distinct ids
DistinctIdSeqs(S, n) ==
    UNION {{s \in SeqsOfLen(S, k) : \A i, j \in 1..k : i # j => s[i].id # s[j].id} : k \in 0..n}

----------------------------------------------------------------------------
(* What the collaborators can answer *)

\* VectorStore.query(vector, k, filters): at most k matches, one per stored _id
QueryResults(k) ==
    DistinctIdSeqs([id : Ids, score : Scores, metadata : {[content |-> VectorContent]}], Max(k, 0))

\* TextSearchService.searchText(query, k, filters): at most k SearchResults, one per id
TextResults(k) ==
    DistinctIdSeqs([id : Ids, content : {TextContent}, score : Scores], Max(k, 0))

----------------------------------------------------------------------------
(* HybridSearchService.combineResults *)

Weighted(score, weight) == (score * weight) \div 10

\* Map.has(id) on the insertion-ordered entries of resultMap
IndexOf(map, id) ==
    IF \E i \in 1..Len(map) : map[i].id = id
    THEN CHOOSE i \in 1..Len(map) : map[i].id = id
    ELSE 0

\* resultMap.set(id, entry): replaces in place, or appends a new key
MapSet(map, entry) ==
    LET i == IndexOf(map, entry.id)
    IN IF i = 0 THEN Append(map, entry) ELSE [map EXCEPT ![i] = entry]

\* (variant: result.score = score; resultMap.set(result.id, result) -- the
\*  entry is the leg's own element)
AssignScore(r, score) == [object |-> [r EXCEPT !.score = score], shared |-> TRUE]

\* {...result, score: score}: a new object with the fields of result; `shared`
\* tells whether the object is the very element of the leg's list
SpreadWithScore(r, score) == [object |-> [r EXCEPT !.score = score], shared |-> FALSE]

\* (variant: the gate excludes a score equal to minScore)
PassesGateStrict(r, minScore) == r.score > minScore

\* the gate both loops apply to a leg's native score
PassesGate(r, minScore) == r.score >= minScore

RECURSIVE AddVectorResults(_, _, _, _)
AddVectorResults(map, vectorResults, vectorWeight, minScore) ==
    IF vectorResults = <<>> THEN map
    ELSE LET r == Head(vectorResults)
             next == IF PassesGate(r, minScore)
                     THEN MapSet(map, SpreadWithScore(r, Weighted(r.score, vectorWeight)).object)
                     ELSE map
         IN AddVectorResults(next, Tail(vectorResults), vectorWeight, minScore)

\* (variant: the text term replaces the entry's score instead of adding to it)
CombineReplace(existing, r, textWeight) ==
    [existing EXCEPT !.score = Weighted(r.score, textWeight)]

\* existing.score += result.score * textWeight
CombineExisting(existing, r, textWeight) ==
    [existing EXCEPT !.score = existing.score + Weighted(r.score, textWeight)]

RECURSIVE AddTextResults(_, _, _, _)
AddTextResults(map, textResults, textWeight, minScore) ==
    IF textResults = <<>> THEN map
    ELSE LET r == Head(textResults)
             i == IndexOf(map, r.id)
             next == IF PassesGate(r, minScore)
                     THEN IF i # 0
                          THEN [map EXCEPT ![i] = CombineExisting(map[i], r, textWeight)]
                          ELSE MapSet(map, SpreadWithScore(r, Weighted(r.score, textWeight)).object)
                     ELSE map
         IN AddTextResults(next, Tail(textResults), textWeight, minScore)

\* Array.prototype.sort((a, b) => b.score - a.score): stable, descending by score
RECURSIVE InsertSorted(_, _)
InsertSorted(sorted, e) ==
    IF sorted = <<>> THEN <<e>>
    ELSE IF Head(sorted).score >= e.score
         THEN <<Head(sorted)>> \o InsertSorted(Tail(sorted), e)
         ELSE <<e>> \o sorted

\* (variant: the entries stay in Map insertion order)
InsertionOrder(s) == s

RECURSIVE SortByScore(_)
SortByScore(s) ==
    IF s = <<>> THEN <<>>
    ELSE InsertSorted(SortByScore(SubSeq(s, 1, Len(s) - 1)), s[Len(s)])

combineResults(vectorResults, textResults, vectorWeight, textWeight, minScore) ==
    SortByScore(
        AddTextResults(
            AddVectorResults(<<>>, vectorResults, vectorWeight, minScore),
            textResults, textWeight, minScore))

\* The leg lists as they read once combineResults has run.  combineResults
\* writes only to the objects held by resultMap (existing.score += ...); an
\* element of a leg list changes exactly when resultMap holds that very object.
vectorResultsAfter(vectorResults, combined, vectorWeight, minScore) ==
    [i \in 1..Len(vectorResults) |->
        LET r == vectorResults[i]
        IN IF PassesGate(r, minScore) /\ SpreadWithScore(r, Weighted(r.score, vectorWeight)).shared
           THEN combined[IndexOf(combined, r.id)]
           ELSE r]

textResultsAfter(textResults, vectorResults, combined, textWeight, minScore) ==
    [i \in 1..Len(textResults) |->
        LET r == textResults[i]
            inserted == /\ PassesGate(r, minScore)
                        /\ ~\E j \in 1..Len(vectorResults) :
                               vectorResults[j].id = r.id /\ PassesGate(vectorResults[j], minScore)
        IN IF inserted /\ SpreadWithScore(r, Weighted(r.score, textWeight)).shared
           THEN combined[IndexOf(combined, r.id)]
           ELSE r]

\* Array.prototype.slice(0, end)
Slice(s, end) ==
    LET n == IF end < 0 THEN Max(Len(s) + end, 0) ELSE Min(end, Len(s))
    IN SubSeq(s, 1, n)

----------------------------------------------------------------------------
(* The two legs *)

\* results.map(result => ({id, content: metadata.content || '', score, ...}))
ToSearchResult(qr) ==
    [id |-> qr.id, content |-> qr.metadata.content, score |-> qr.score]

MapToSearchResults(results) == [i \in 1..Len(results) |-> ToSearchResult(results[i])]

Fulfilled(v) == [state |-> "fulfilled", value |-> v]

Rejected == [state |-> "rejected", value |-> <<>>]

\* performVectorSearch: catch (error) { console.error(...); return []; }
VectorSearchCaught == Fulfilled(<<>>)

\* (variant: the error of searchText leaves performTextSearch uncaught)
TextSearchUncaught == Rejected

\* performTextSearch: catch (error) { console.error(...); return []; }
TextSearchCaught == Fulfilled(<<>>)

\* search(query, topK, filters, options): both legs run to their first await
Search(q, k, o) ==
    /\ pc = "idle"
    /\ pc' = "awaiting"
    /\ query' = q
    /\ topK' = k
    /\ options' = o
    /\ vecPc' = "embedding"
    /\ textPc' = "searching"
    /\ dispatched' = dispatched \cup {"generateEmbedding", "searchText"}
    /\ UNCHANGED <<vectorLeg, textLeg, errorLog, fused, result>>
    /\ UNCHANGED <<storeVars, indexVars>>

\* generateEmbedding resolved: the vector query is issued
EmbeddingResolves ==
    /\ vecPc = "embedding"
    /\ vecPc' = "querying"
    /\ dispatched' = dispatched \cup {"vectorStore.query"}
    /\ UNCHANGED <<pc, query, topK, options, textPc, vectorLeg, textLeg, errorLog, fused, result>>
    /\ UNCHANGED <<storeVars, indexVars>>

\* generateEmbedding threw: caught at the leg's boundary
EmbeddingThrows ==
    /\ vecPc = "embedding"
    /\ vecPc' = "settled"
    /\ vectorLeg' = VectorSearchCaught
    /\ errorLog' = errorLog \cup {"Error performing vector search"}
    /\ UNCHANGED <<pc, query, topK, options, textPc, textLeg, dispatched, fused, result>>
    /\ UNCHANGED <<storeVars, indexVars>>

VectorQueryResolves ==
    /\ vecPc = "querying"
    /\ vecPc' = "settled"
    /\ \E results \in QueryResults(topK) : vectorLeg' = Fulfilled(MapToSearchResults(results))
    /\ UNCHANGED <<pc, query, topK, options, textPc, textLeg, dispatched, errorLog, fused, result>>
    /\ UNCHANGED <<storeVars, indexVars>>

VectorQueryThrows ==
    /\ vecPc = "querying"
    /\ vecPc' = "settled"
    /\ vectorLeg' = VectorSearchCaught
    /\ errorLog' = errorLog \cup {"Error performing vector search"}
    /\ UNCHANGED <<pc, query, topK, options, textPc, textLeg, dispatched, fused, result>>
    /\ UNCHANGED <<storeVars, indexVars>>

TextSearchResolves ==
    /\ textPc = "searching"
    /\ textPc' = "settled"
    /\ \E results \in TextResults(topK) : textLeg' = Fulfilled(results)
    /\ UNCHANGED <<pc, query, topK, options, vecPc, vectorLeg, dispatched, errorLog, fused, result>>
    /\ UNCHANGED <<storeVars, indexVars>>

TextSearchThrows ==
    /\ textPc = "searching"
    /\ textPc' = "settled"
    /\ textLeg' = TextSearchCaught
    /\ errorLog' = errorLog \cup {"Error performing text search"}
    /\ UNCHANGED <<pc, query, topK, options, vecPc, vectorLeg, dispatched, fused, result>>
    /\ UNCHANGED <<storeVars, indexVars>>

----------------------------------------------------------------------------
(* search resumes after await Promise.all([...]) *)

\* (variant: the first fulfilled leg resumes search, as Promise.race would)
AnyFulfilled(legs) == \E i \in 1..Len(legs) : legs[i].state = "fulfilled"

\* Promise.all fulfils once every input promise is fulfilled
AllFulfilled(legs) == \A i \in 1..Len(legs) : legs[i].state = "fulfilled"

\* Promise.all rejects as soon as one input promise is rejected
AnyRejected(legs) == \E i \in 1..Len(legs) : legs[i].state = "rejected"

\* (variant: the fused list is returned whole)
NoTruncate(combined, k) == combined

\* combinedResults.slice(0, topK)
Truncate(combined, k) == Slice(combined, k)

SearchResumes ==
    /\ pc = "awaiting"
    /\ \/ AnyRejected(<<vectorLeg, textLeg>>)
       \/ AllFulfilled(<<vectorLeg, textLeg>>)
    /\ IF AnyRejected(<<vectorLeg, textLeg>>)
       THEN /\ pc' = "rejected"
            /\ UNCHANGED <<fused, result>>
       ELSE LET combined == combineResults(vectorLeg.value, textLeg.value,
                                           options.vectorWeight, options.textWeight,
                                           options.minScore)
            IN /\ pc' = "returned"
               /\ fused' = combined
               /\ result' = [vectorResults |->
                                 vectorResultsAfter(vectorLeg.value, combined,
                                                    options.vectorWeight, options.minScore),
                             textResults |->
                                 textResultsAfter(textLeg.value, vectorLeg.value, combined,
                                                  options.textWeight, options.minScore),
                             combinedResults |-> Truncate(combined, topK)]
    /\ UNCHANGED <<query, topK, options, vecPc, textPc, vectorLeg, textLeg, dispatched, errorLog>>
    /\ UNCHANGED <<storeVars, indexVars>>

----------------------------------------------------------------------------
(* MongoDBVectorStore: upsert, delete, getStats *)

\* config.dimensions, scaled down
Dimensions == 2

MaxBatch == 1

NoDoc == [none |-> TRUE]

NoCall == [op |-> "none"]

NoReply == [op |-> "none"]

Undefined == "undefined"

\* new Date()
Times == {1, 2}

\* the fields upsert copies by name before spreading vector.metadata
WellKnownFields == {"videoId", "playlistId", "title", "publishedAt", "startTime", "url"}

Constant(n, x) == [i \in 1..n |-> x]

\* VectorData to upsert: two payloads of the configured dimensionality and one
\* whose values array is one element short
Payloads ==
    { [values |-> Constant(Dimensions, 1),
       metadata |-> [videoId |-> "v1", content |-> "intro", speaker |-> "host"]],
      [values |-> Constant(Dimensions, 2),
       metadata |-> [videoId |-> "v2", startTime |-> 30]],
      [values |-> Constant(Dimensions - 1, 1),
       metadata |-> [videoId |-> "v2", startTime |-> 30]] }

VectorDatas == {[id |-> id, values |-> p.values, metadata |-> p.metadata] : id \in Ids, p \in Payloads}

Batches == UNION {SeqsOfLen(VectorDatas, n) : n \in 1..MaxBatch}

\* obj.key of a metadata bag
Get(obj, key) == IF key \in DOMAIN obj THEN obj[key] ELSE Undefined

\* vector.metadata.content || ''
ContentOf(metadata) == IF Get(metadata, "content") \in {Undefined, ""} THEN "" ELSE metadata["content"]

\* the MongoVectorDocument upsert builds from one VectorData
ToDocument(vector, now) ==
    [_id |-> vector.id,
     content |-> ContentOf(vector.metadata),
     embedding |-> vector.values,
     metadata |-> [key \in WellKnownFields \cup DOMAIN vector.metadata |-> Get(vector.metadata, key)],
     createdAt |-> now,
     updatedAt |-> now]

ToDocuments(vectors, now) == [i \in 1..Len(vectors) |-> ToDocument(vectors[i], now)]

Stored(coll) == {id \in Ids : coll[id] # NoDoc}

\* collection.countDocuments()
countDocuments(coll) == Cardinality(Stored(coll))

\* (variant: the replacement keeps the metadata keys of the stored document
\*  that the new document does not set, as an update with $set would)
MergeOne(coll, doc) ==
    IF coll[doc._id] = NoDoc THEN [coll EXCEPT ![doc._id] = doc]
    ELSE LET old == coll[doc._id].metadata
         IN [coll EXCEPT ![doc._id] =
                [doc EXCEPT !.metadata =
                    [key \in DOMAIN old \cup DOMAIN doc.metadata |->
                        IF key \in DOMAIN doc.metadata THEN doc.metadata[key] ELSE old[key]]]]

\* replaceOne: {filter: {_id: doc._id}, replacement: doc, upsert: true}
ReplaceOne(coll, doc) == [coll EXCEPT ![doc._id] = doc]

\* collection.bulkWrite(operations), ordered: the operations apply in sequence
RECURSIVE BulkWrite(_, _)
BulkWrite(coll, documents) ==
    IF documents = <<>> THEN coll
    ELSE BulkWrite(ReplaceOne(coll, Head(documents)), Tail(documents))

\* result.upsertedCount / result.modifiedCount of bulkWrite
RECURSIVE UpsertedCount(_, _)
UpsertedCount(coll, documents) ==
    IF documents = <<>> THEN 0
    ELSE (IF coll[Head(documents)._id] = NoDoc THEN 1 ELSE 0)
         + UpsertedCount(ReplaceOne(coll, Head(documents)), Tail(documents))

RECURSIVE ModifiedCount(_, _)
ModifiedCount(coll, documents) ==
    IF documents = <<>> THEN 0
    ELSE (IF coll[Head(documents)._id] \notin {NoDoc, Head(documents)} THEN 1 ELSE 0)
         + ModifiedCount(ReplaceOne(coll, Head(documents)), Tail(documents))

\* (variant: the filter is {_id: {$nin: ids}})
DeleteOthers(coll, ids) == [id \in Ids |-> IF id \in ids THEN coll[id] ELSE NoDoc]

\* collection.deleteMany({_id: {$in: ids}})
DeleteMany(coll, ids) == [id \in Ids |-> IF id \in ids THEN NoDoc ELSE coll[id]]

\* result.deletedCount of deleteMany
DeletedCount(coll, ids) == Cardinality(Stored(coll) \cap ids)

\* upsert(vectors): the documents are built, then bulkWrite is awaited
Upsert(vectors, now) ==
    /\ storeCall = NoCall
    /\ storeReply = NoReply
    /\ storeCall' = [op |-> "bulkWrite", vectors |-> vectors, documents |-> ToDocuments(vectors, now)]
    /\ UNCHANGED <<collection, storeReply>>
    /\ UNCHANGED <<searchVars, indexVars>>

BulkWriteResolves ==
    /\ storeCall.op = "bulkWrite"
    /\ collection' = BulkWrite(collection, storeCall.documents)
    /\ storeReply' = [op |-> "upsert", status |-> "ok",
                      upsertedCount |-> UpsertedCount(collection, storeCall.documents),
                      modifiedCount |-> ModifiedCount(collection, storeCall.documents)]
    /\ storeCall' = NoCall
    /\ UNCHANGED <<searchVars, indexVars>>

\* bulkWrite fails at some operation: the ones before it are applied, upsert rethrows
BulkWriteThrows ==
    /\ storeCall.op = "bulkWrite"
    /\ \E n \in 0..(Len(storeCall.documents) - 1) :
           collection' = BulkWrite(collection, SubSeq(storeCall.documents, 1, n))
    /\ storeReply' = [op |-> "upsert", status |-> "error"]
    /\ storeCall' = NoCall
    /\ UNCHANGED <<searchVars, indexVars>>

\* delete(ids): deleteMany is awaited
Delete(ids) ==
    /\ storeCall = NoCall
    /\ storeReply = NoReply
    /\ storeCall' = [op |-> "deleteMany", ids |-> ids]
    /\ UNCHANGED <<collection, storeReply>>
    /\ UNCHANGED <<searchVars, indexVars>>

DeleteManyResolves ==
    /\ storeCall.op = "deleteMany"
    /\ collection' = DeleteMany(collection, storeCall.ids)
    /\ storeReply' = [op |-> "delete", status |-> "ok", ids |-> storeCall.ids,
                      deletedCount |-> DeletedCount(collection, storeCall.ids)]
    /\ storeCall' = NoCall
    /\ UNCHANGED <<searchVars, indexVars>>

DeleteManyThrows ==
    /\ storeCall.op = "deleteMany"
    /\ storeReply' = [op |-> "delete", status |-> "error"]
    /\ storeCall' = NoCall
    /\ UNCHANGED collection
    /\ UNCHANGED <<searchVars, indexVars>>

\* getStats(): countDocuments and db.stats() are awaited
GetStats ==
    /\ storeCall = NoCall
    /\ storeReply = NoReply
    /\ storeCall' = [op |-> "countDocuments"]
    /\ UNCHANGED <<collection, storeReply>>
    /\ UNCHANGED <<searchVars, indexVars>>

GetStatsResolves ==
    /\ storeCall.op = "countDocuments"
    /\ storeReply' = [op |-> "getStats", status |-> "ok",
                      totalVectors |-> countDocuments(collection),
                      dimensions |-> Dimensions]
    /\ storeCall' = NoCall
    /\ UNCHANGED collection
    /\ UNCHANGED <<searchVars, indexVars>>

GetStatsThrows ==
    /\ storeCall.op = "countDocuments"
    /\ storeReply' = [op |-> "getStats", status |-> "error"]
    /\ storeCall' = NoCall
    /\ UNCHANGED collection
    /\ UNCHANGED <<searchVars, indexVars>>

\* the caller's await on the settled Promise resumes; the store takes the next call
CallerResumes ==
    /\ storeCall = NoCall
    /\ storeReply # NoReply
    /\ storeReply' = NoReply
    /\ UNCHANGED <<collection, storeCall>>
    /\ UNCHANGED <<searchVars, indexVars>>

----------------------------------------------------------------------------
(* MongoDBVectorStore: connect / ensureVectorIndex, and the filter of query *)

\* config.indexName (default)
IndexName == "vector_index"

\* config.similarityMetric (default)
SimilarityMetric == "cosine"

\* the definition ensureVectorIndex passes to createSearchIndex
IndexDefinition ==
    [name |-> IndexName,
     fields |-> << [type |-> "vector", path |-> "embedding",
                    numDimensions |-> Dimensions, similarity |-> SimilarityMetric],
                   [type |-> "filter", path |-> "metadata.videoId"],
                   [type |-> "filter", path |-> "metadata.playlistId"],
                   [type |-> "filter", path |-> "metadata.publishedAt"] >>]

\* indexes.some(index => index.name === this.config.indexName)
vectorIndexExists(indexes) == \E index \in indexes : index.name = IndexName

\* an object literal {}
EmptyObject == <<>>

\* obj[key] = value
Put(obj, key, value) == [k \in DOMAIN obj \cup {key} |-> IF k = key THEN value ELSE obj[k]]

\* `metadata.${key}`
MetadataPath(key) == "metadata." \o key

\* one iteration of the loop of buildFilterQuery
FilterEntry(filterQuery, key, value) ==
    IF key \in {"videoId", "playlistId"}
    THEN Put(filterQuery, MetadataPath(key), [op \in {"$eq"} |-> value])
    ELSE IF key \in {"publishedAfter", "publishedBefore"}
    THEN LET dateField == "metadata.publishedAt"
             range == IF dateField \in DOMAIN filterQuery THEN filterQuery[dateField] ELSE EmptyObject
         IN Put(filterQuery, dateField,
                Put(range, IF key = "publishedAfter" THEN "$gte" ELSE "$lte", value))
    ELSE IF key = "startTimeRange"
    THEN LET withMin == IF "min" \in DOMAIN value THEN Put(EmptyObject, "$gte", value["min"])
                        ELSE EmptyObject
             withMax == IF "max" \in DOMAIN value THEN Put(withMin, "$lte", value["max"])
                        ELSE withMin
         IN Put(filterQuery, "metadata.startTime", withMax)
    ELSE Put(filterQuery, MetadataPath(key), [op \in {"$eq"} |-> value])

\* for (const [key, value] of Object.entries(filters)), entries = <<key, value>> pairs
RECURSIVE FilterLoop(_, _)
FilterLoop(filterQuery, entries) ==
    IF entries = <<>> THEN filterQuery
    ELSE FilterLoop(FilterEntry(filterQuery, Head(entries)[1], Head(entries)[2]), Tail(entries))

buildFilterQuery(filters) == FilterLoop(EmptyObject, filters)

\* the filters a caller can pass: each key at most once, in the order below
FilterChoices ==
    << {<<"videoId", "v1">>},
       {<<"playlistId", "p1">>},
       {<<"publishedAfter", "2024-01-01">>},
       {<<"publishedBefore", "2024-12-31">>},
       {<<"startTimeRange", [b \in {"min"} |-> 0]>>,
        <<"startTimeRange", [b \in {"max"} |-> 60]>>,
        <<"startTimeRange", [b \in {"min", "max"} |-> IF b = "min" THEN 0 ELSE 60]>>,
        <<"startTimeRange", EmptyObject>>},
       {<<"channelId", "ch1">>} >>

RECURSIVE FiltersFrom(_)
FiltersFrom(i) ==
    IF i > Len(FilterChoices) THEN {<<>>}
    ELSE LET rest == FiltersFrom(i + 1)
         IN rest \cup {<<e>> \o f : e \in FilterChoices[i], f \in rest}

\* filters?: Record<string, any>: left out, or an object with these entries
NoFilters == [given |-> FALSE, entries |-> <<>>]

FilterInputs == {NoFilters} \cup {[given |-> TRUE, entries |-> f] : f \in FiltersFrom(1)}

\* the $vectorSearch stage of the pipeline of query; ...(filters && {filter: ...})
VectorSearchStage(k, filters) ==
    LET stage == [index |-> IndexName, path |-> "embedding",
                  numCandidates |-> Max(k * 10, 100), limit |-> k]
    IN IF ~filters.given THEN stage
       ELSE [f \in DOMAIN stage \cup {"filter"} |->
                IF f = "filter" THEN buildFilterQuery(filters.entries) ELSE stage[f]]

\* connect(): client.connect() resolved, ensureVectorIndex awaits listIndexes
Connect ==
    /\ connectPc \in {"disconnected", "failed"}
    /\ connectPc' = "listing"
    /\ UNCHANGED <<searchIndexes, queryCall>>
    /\ UNCHANGED <<searchVars, storeVars>>

\* listIndexes resolved: the index is created unless one of that name exists
ListIndexesResolves ==
    /\ connectPc = "listing"
    /\ connectPc' = IF vectorIndexExists(searchIndexes) THEN "connected" ELSE "creating"
    /\ UNCHANGED <<searchIndexes, queryCall>>
    /\ UNCHANGED <<searchVars, storeVars>>

CreateSearchIndexResolves ==
    /\ connectPc = "creating"
    /\ searchIndexes' = searchIndexes \cup {IndexDefinition}
    /\ connectPc' = "connected"
    /\ UNCHANGED queryCall
    /\ UNCHANGED <<searchVars, storeVars>>

\* listIndexes or createSearchIndex threw: ensureVectorIndex rethrows, connect rejects
EnsureVectorIndexThrows ==
    /\ connectPc \in {"listing", "creating"}
    /\ connectPc' = "failed"
    /\ UNCHANGED <<searchIndexes, queryCall>>
    /\ UNCHANGED <<searchVars, storeVars>>

\* disconnect(): client.close()
Disconnect ==
    /\ connectPc = "connected"
    /\ queryCall = NoCall
    /\ connectPc' = "disconnected"
    /\ UNCHANGED <<searchIndexes, queryCall>>
    /\ UNCHANGED <<searchVars, storeVars>>

\* query(vector, k, filters): the pipeline is built, then aggregate is awaited
Query(k, filters) ==
    /\ connectPc = "connected"
    /\ queryCall = NoCall
    /\ queryCall' = [op |-> "aggregate", filters |-> filters, stage |-> VectorSearchStage(k, filters)]
    /\ UNCHANGED <<connectPc, searchIndexes>>
    /\ UNCHANGED <<searchVars, storeVars>>

\* aggregate resolved or threw: query returns the mapped matches or rethrows
AggregateSettles ==
    /\ queryCall # NoCall
    /\ queryCall' = NoCall
    /\ UNCHANGED <<connectPc, searchIndexes>>
    /\ UNCHANGED <<searchVars, storeVars>>

----------------------------------------------------------------------------

SearchInit ==
    /\ pc = "idle"
    /\ query = ""
    /\ topK = 0
    /\ options = DefaultOptions
    /\ vecPc = "idle"
    /\ textPc = "idle"
    /\ vectorLeg = Pending
    /\ textLeg = Pending
    /\ dispatched = {}
    /\ errorLog = {}
    /\ fused = <<>>
    /\ result = NoResult

StoreInit ==
    /\ collection = [id \in Ids |-> NoDoc]
    /\ storeCall = NoCall
    /\ storeReply = NoReply

IndexInit ==
    /\ connectPc = "disconnected"
    /\ searchIndexes = {}
    /\ queryCall = NoCall

Init == SearchInit /\ StoreInit /\ IndexInit

Next ==
    \/ \E q \in Queries, k \in TopKs, o \in OptionSets : Search(q, k, o)
    \/ EmbeddingResolves
    \/ EmbeddingThrows
    \/ VectorQueryResolves
    \/ VectorQueryThrows
    \/ TextSearchResolves
    \/ TextSearchThrows
    \/ SearchResumes

Spec == Init /\ [][Next]_vars

StoreNext ==
    \/ \E vectors \in Batches, now \in Times : Upsert(vectors, now)
    \/ BulkWriteResolves
    \/ BulkWriteThrows
    \/ \E ids \in SUBSET Ids : Delete(ids)
    \/ DeleteManyResolves
    \/ DeleteManyThrows
    \/ GetStats
    \/ GetStatsResolves
    \/ GetStatsThrows
    \/ CallerResumes

StoreSpec == Init /\ [][StoreNext]_vars

IndexNext ==
    \/ Connect
    \/ ListIndexesResolves
    \/ CreateSearchIndexResolves
    \/ EnsureVectorIndexThrows
    \/ Disconnect
    \/ \E k \in 1..MaxTopK, filters \in FilterInputs : Query(k, filters)
    \/ AggregateSettles

IndexSpec == Init /\ [][IndexNext]_vars

----------------------------------------------------------------------------
(* Properties of HybridSearchService.search *)

Returned == pc = "returned"

WellFormed == query # "" /\ topK >= 1

TextThrew == "Error performing text search" \in errorLog

VectorThrew == "Error performing vector search" \in errorLog

\* the results of a leg whose native score passes the minScore gate
Passing(leg) == {r \in Range(leg) : r.score >= options.minScore}

IdsIn(S) == {r.id : r \in S}

Entries(list, id) == {i \in 1..Len(list) : list[i].id = id}

SortedDescending(list) == \A i, j \in 1..Len(list) : i < j => list[i].score >= list[j].score

\* every entry of list is a result of leg that passes the gate, scaled by weight
DerivedFrom(list, leg, weight) ==
    \A i \in 1..Len(list) :
        \E r \in Passing(leg) :
            /\ r.id = list[i].id
            /\ list[i].score = (r.score * weight) \div 10
            /\ list[i].content = r.content

\* C1 (as amended): when searchText throws and the vector leg succeeds, search
\* returns (it never rejects) with textResults = [] and combinedResults built
\* from the vector results alone: every entry is a vector result with native
\* score >= minScore carrying score * vectorWeight, and the list is non-empty
\* whenever topK >= 1 and some vector result passes the gate.  Symmetrically
\* when the embedding call or the vector query throws and the text leg succeeds.
C1_SoftFailPerLeg ==
    /\ (pc \in {"returned", "rejected"} /\ TextThrew /\ ~VectorThrew) =>
          /\ pc = "returned"
          /\ result.textResults = <<>>
          /\ DerivedFrom(result.combinedResults, result.vectorResults, options.vectorWeight)
          /\ (topK >= 1 /\ Passing(result.vectorResults) # {}) => result.combinedResults # <<>>
    /\ (pc \in {"returned", "rejected"} /\ VectorThrew /\ ~TextThrew) =>
          /\ pc = "returned"
          /\ result.vectorResults = <<>>
          /\ DerivedFrom(result.combinedResults, result.textResults, options.textWeight)
          /\ (topK >= 1 /\ Passing(result.textResults) # {}) => result.combinedResults # <<>>

C1_Witness ==
    /\ Returned /\ TextThrew /\ ~VectorThrew
    /\ result.vectorResults # <<>>
    /\ result.combinedResults # <<>>

\* C1 as stated, read most favourably (a well-formed request, and the surviving
\* leg returned at least one result): combinedResults is non-empty.
C1_Original ==
    /\ (Returned /\ WellFormed /\ TextThrew /\ ~VectorThrew /\ result.vectorResults # <<>>) =>
          (result.textResults = <<>> /\ result.combinedResults # <<>>)
    /\ (Returned /\ WellFormed /\ VectorThrew /\ ~TextThrew /\ result.textResults # <<>>) =>
          (result.vectorResults = <<>> /\ result.combinedResults # <<>>)

\* C2: an id returned by both legs with both native scores >= minScore has
\* exactly one fused entry, and its score is sv*vectorWeight + st*textWeight.
C2_ScoreAccumulation ==
    Returned =>
        \A rv \in Passing(result.vectorResults), rt \in Passing(result.textResults) :
            rv.id = rt.id =>
                /\ Cardinality(Entries(fused, rv.id)) = 1
                /\ \A i \in Entries(fused, rv.id) :
                       fused[i].score = (rv.score * options.vectorWeight) \div 10
                                        + (rt.score * options.textWeight) \div 10

C2_Witness ==
    /\ Returned
    /\ \E rv \in Passing(result.vectorResults), rt \in Passing(result.textResults) :
           /\ rv.id = rt.id
           /\ rv.score # rt.score
           /\ Entries(result.combinedResults, rv.id) # {}

\* C3: both legs are dispatched together, and search neither fuses nor returns
\* while a leg is still running; the result carries what each leg settled with.
C3_JoinThenMerge ==
    /\ pc = "awaiting" => (vecPc # "idle" /\ textPc # "idle")
    /\ (vecPc # "settled" \/ textPc # "settled") =>
          (pc \in {"idle", "awaiting"} /\ result = NoResult /\ fused = <<>>)
    /\ Returned =>
          /\ result.vectorResults = vectorLeg.value
          /\ result.textResults = textLeg.value

C3_Witness ==
    /\ Returned
    /\ result.vectorResults # <<>>
    /\ result.textResults # <<>>
    /\ IdsOf(result.combinedResults) \cap IdsOf(result.vectorResults) # {}
    /\ IdsOf(result.combinedResults) \cap IdsOf(result.textResults) # {}

\* C4: a request with an empty query or topK <= 0 is rejected before any
\* remote call is issued.
C4_MalformedRejectedBeforeIO ==
    (pc # "idle" /\ (query = "" \/ topK <= 0)) => (pc = "rejected" /\ dispatched = {})

\* C6 (as amended): when the two legs return disjoint id sets, the fused list
\* holds exactly the results of either leg whose native score is >= minScore,
\* each once, with score native * its own leg's weight, sorted descending by
\* that score; combinedResults is its first topK entries (for topK >= 0).
C6_DisjointUnion ==
    (Returned /\ IdsOf(result.vectorResults) \cap IdsOf(result.textResults) = {}) =>
        /\ IdsOf(fused) = IdsIn(Passing(result.vectorResults)) \cup IdsIn(Passing(result.textResults))
        /\ \A id \in IdsOf(fused) : Cardinality(Entries(fused, id)) = 1
        /\ SortedDescending(fused)
        /\ \A i \in 1..Len(fused) :
               \/ \E r \in Passing(result.vectorResults) :
                      /\ r.id = fused[i].id
                      /\ fused[i] = [r EXCEPT !.score = (r.score * options.vectorWeight) \div 10]
               \/ \E r \in Passing(result.textResults) :
                      /\ r.id = fused[i].id
                      /\ fused[i] = [r EXCEPT !.score = (r.score * options.textWeight) \div 10]
        /\ topK >= 0 =>
               /\ Len(result.combinedResults) = Min(topK, Len(fused))
               /\ \A i \in 1..Len(result.combinedResults) : result.combinedResults[i] = fused[i]

C6_Witness ==
    /\ Returned
    /\ IdsOf(result.vectorResults) \cap IdsOf(result.textResults) = {}
    /\ Passing(result.vectorResults) # {}
    /\ Passing(result.textResults) # {}
    /\ Len(result.combinedResults) >= 2
    /\ result.combinedResults[1].content = TextContent

\* C6 as stated, for a well-formed request: combinedResults is exactly the union
\* of the two legs' results, sorted descending, each with native * leg weight.
C6_Original ==
    (Returned /\ WellFormed /\ IdsOf(result.vectorResults) \cap IdsOf(result.textResults) = {}) =>
        /\ IdsOf(result.combinedResults) = IdsOf(result.vectorResults) \cup IdsOf(result.textResults)
        /\ Len(result.combinedResults) = Len(result.vectorResults) + Len(result.textResults)
        /\ SortedDescending(result.combinedResults)
        /\ \A i \in 1..Len(result.combinedResults) :
               \/ \E r \in Range(result.vectorResults) :
                      /\ r.id = result.combinedResults[i].id
                      /\ result.combinedResults[i].score = (r.score * options.vectorWeight) \div 10
               \/ \E r \in Range(result.textResults) :
                      /\ r.id = result.combinedResults[i].id
                      /\ result.combinedResults[i].score = (r.score * options.textWeight) \div 10

\* C7: for a non-empty query and topK >= 1, combinedResults has at most topK
\* entries, whatever the legs returned or however they failed.
C7_AtMostTopK ==
    (Returned /\ query # "" /\ topK >= 1) => Len(result.combinedResults) <= topK

C7_Witness ==
    /\ Returned /\ query # "" /\ topK >= 1
    /\ Len(fused) > topK
    /\ Len(result.combinedResults) = topK

\* C8: minScore gates each leg's native score.  An id is in the fused list
\* exactly when its native score is >= minScore on some leg (whatever its
\* weighted score), and its fused score is the sum of the weighted terms of the
\* legs on which it passes: a leg on which it is below minScore adds nothing.
GatedTerm(leg, id, weight) ==
    IF \E r \in Passing(leg) : r.id = id
    THEN ((CHOOSE r \in Passing(leg) : r.id = id).score * weight) \div 10
    ELSE 0

C8_MinScoreGate ==
    Returned =>
        \A id \in Ids :
            IF id \in IdsIn(Passing(result.vectorResults)) \cup IdsIn(Passing(result.textResults))
            THEN /\ Cardinality(Entries(fused, id)) = 1
                 /\ \A i \in Entries(fused, id) :
                        fused[i].score = GatedTerm(result.vectorResults, id, options.vectorWeight)
                                         + GatedTerm(result.textResults, id, options.textWeight)
            ELSE Entries(fused, id) = {}

\* an id passes on the vector leg and is below the gate on the text leg, and a
\* text-only result passes the gate with a weighted score below minScore
C8_Witness ==
    /\ Returned
    /\ \E rv \in Passing(result.vectorResults), rt \in Range(result.textResults) :
           /\ rv.id = rt.id
           /\ rt.score < options.minScore
           /\ Entries(fused, rv.id) # {}
    /\ \E i \in 1..Len(fused) :
           /\ fused[i].score < options.minScore
           /\ fused[i].content = TextContent

----------------------------------------------------------------------------
(* Properties of MongoDBVectorStore *)

\* the last VectorData of the batch carrying the given id
LastFor(vectors, id) ==
    vectors[CHOOSE i \in 1..Len(vectors) :
                /\ vectors[i].id = id
                /\ \A j \in (i + 1)..Len(vectors) : vectors[j].id # id]

\* C5: a record whose vector length differs from the configured dimensions is
\* refused by upsert, so every stored vector has the configured length.
C5_StoredDimensions ==
    \A id \in Stored(collection) : Len(collection[id].embedding) = Dimensions

\* C9: upsert replaces by id.  After a successful upsert every id of the batch
\* stores exactly the vector and the metadata of its (last) record: the
\* metadata keys are the well-known fields and the record's own keys, nothing of
\* the replaced document; other ids are untouched; the number of documents
\* grows only by the ids that were new; and upserting the same batch once more
\* leaves every stored vector and metadata as they are.
C9_UpsertReplaces ==
    [][BulkWriteResolves =>
        LET vectors == storeCall.vectors
            again == BulkWrite(collection', storeCall.documents)
        IN /\ storeReply'.status = "ok"
           /\ \A id \in Ids :
                  IF id \in IdsOf(vectors)
                  THEN LET v == LastFor(vectors, id)
                       IN /\ collection'[id] # NoDoc
                          /\ collection'[id].embedding = v.values
                          /\ DOMAIN collection'[id].metadata = WellKnownFields \cup DOMAIN v.metadata
                          /\ \A key \in DOMAIN v.metadata : collection'[id].metadata[key] = v.metadata[key]
                          /\ \A key \in WellKnownFields \ DOMAIN v.metadata :
                                 collection'[id].metadata[key] = Undefined
                  ELSE collection'[id] = collection[id]
           /\ countDocuments(collection') =
                  countDocuments(collection) + Cardinality(IdsOf(vectors) \ Stored(collection))
           /\ \A t \in Times :
                  LET twice == BulkWrite(collection', ToDocuments(vectors, t))
                  IN \A id \in Ids :
                         IF collection'[id] = NoDoc THEN twice[id] = NoDoc
                         ELSE /\ twice[id] # NoDoc
                              /\ twice[id].embedding = collection'[id].embedding
                              /\ twice[id].metadata = collection'[id].metadata
                              /\ twice[id].content = collection'[id].content
    ]_vars

\* an upsert replaced a stored document by a different one, inserting nothing
C9_Witness ==
    /\ storeReply.op = "upsert" /\ storeReply.status = "ok"
    /\ storeReply.modifiedCount >= 1
    /\ storeReply.upsertedCount = 0
    /\ \E id \in Stored(collection) : "speaker" \notin DOMAIN collection[id].metadata

\* C10: delete(ids) succeeds whether or not the ids are stored; it removes
\* exactly the stored documents whose id is listed, leaves the others as they
\* are, and the document count (getStats().totalVectors) drops by the number of
\* listed ids that were stored.
C10_DeleteFrame ==
    [][(storeCall.op = "deleteMany" /\ DeleteManyResolves) =>
        /\ storeReply'.status = "ok"
        /\ \A id \in Ids :
               IF id \in storeCall.ids THEN collection'[id] = NoDoc
               ELSE collection'[id] = collection[id]
        /\ countDocuments(collection') =
               countDocuments(collection) - Cardinality(storeCall.ids \cap Stored(collection))
        /\ storeReply'.deletedCount = countDocuments(collection) - countDocuments(collection')
    ]_vars

\* a delete naming one stored and one missing id succeeded, and a third
\* document is still stored
C10_Witness ==
    /\ storeReply.op = "delete" /\ storeReply.status = "ok"
    /\ Cardinality(storeReply.ids) = 2
    /\ storeReply.deletedCount = 1
    /\ countDocuments(collection) = 1

----------------------------------------------------------------------------
(* Properties of the vector index and the filter translation *)

WellKnownFilterKeys == {"videoId", "playlistId", "publishedAfter", "publishedBefore", "startTimeRange"}

\* the paths of the filter fields of the search index named config.indexName
FilterPaths(indexes) ==
    UNION {{index.fields[i].path : i \in {j \in 1..Len(index.fields) : index.fields[j].type = "filter"}} :
              index \in {x \in indexes : x.name = IndexName}}

\* C11: every field path that buildFilterQuery emits for one of the filter keys
\* videoId, playlistId, publishedAfter, publishedBefore, startTimeRange is a
\* filter field of the index ensureVectorIndex created at connect time.
C11_FilterFieldsIndexed ==
    (queryCall # NoCall /\ queryCall.filters.given) =>
        \A i \in 1..Len(queryCall.filters.entries) :
            queryCall.filters.entries[i][1] \in WellKnownFilterKeys =>
                DOMAIN buildFilterQuery(<<queryCall.filters.entries[i]>>) \subseteq FilterPaths(searchIndexes)

----------------------------------------------------------------------------
(* Fusion and the raw per-leg lists *)

\* C12: fusion leaves the per-leg lists alone.  In the result every element of
\* vectorResults and textResults is exactly what its leg produced, native score
\* included, also for an id of both legs whose fused entry had the text term
\* added; weighted and accumulated scores are on combinedResults only.
C12_RawListsUntouched ==
    Returned =>
        /\ Len(result.vectorResults) = Len(vectorLeg.value)
        /\ Len(result.textResults) = Len(textLeg.value)
        /\ \A i \in 1..Len(result.vectorResults) :
               /\ result.vectorResults[i] = vectorLeg.value[i]
               /\ result.vectorResults[i].score \in Scores
        /\ \A i \in 1..Len(result.textResults) :
               /\ result.textResults[i] = textLeg.value[i]
               /\ result.textResults[i].score \in Scores

\* an id of both legs passed the gate twice: its entry of combinedResults carries
\* the accumulated score while both raw elements keep their native scores
C12_Witness ==
    /\ Returned
    /\ \E i \in 1..Len(result.vectorResults), j \in 1..Len(result.textResults),
          n \in 1..Len(result.combinedResults) :
           /\ result.vectorResults[i].id = result.textResults[j].id
           /\ result.combinedResults[n].id = result.vectorResults[i].id
           /\ result.vectorResults[i].score >= options.minScore
           /\ result.textResults[j].score >= options.minScore
           /\ result.combinedResults[n].score =
                  (result.vectorResults[i].score * options.vectorWeight) \div 10
                  + (result.textResults[j].score * options.textWeight) \div 10
           /\ result.combinedResults[n].score # result.vectorResults[i].score
           /\ result.combinedResults[n].score # result.textResults[j].score

====
